---- MODULE Spec2Model ----
(***************************************************************************)
(* Model of the 2D FDTD solver MaxwellSolver (lib/maxwell-solver.ts).      *)
(*                                                                         *)
(* Numbers.  The solver computes in IEEE doubles and stores in Float32     *)
(* arrays.  The model computes in fixed point: a real x is the integer     *)
(* x * Scale, products and quotients are truncated to that resolution,     *)
(* and the IEEE special values NaN, +Infinity and -Infinity are kept as    *)
(* three values outside the finite range, with the IEEE rules for them     *)
(* (x/0, 0/0, Inf*0, Inf-Inf, comparisons with NaN).                       *)
(*                                                                         *)
(* Units.  Lengths are in cells (dx = dy = 1), time in units of dx/c0,     *)
(* and eps0 = mu0 = 1, so that dt = 1/2 is the time step App.tsx sets      *)
(* (dt = dx / (2 c)).  Angles are in turns: 2*Math.PI is the number 1.     *)
(***************************************************************************)
EXTENDS Integers, Sequences, FiniteSets, TLC

\* ------------------------------------------------------------------ bounds

\* Fixed-point resolution: the integer that stands for the real number 1.
Scale == 100
\* The number of public operations of one run of the model.
MaxOps == 3

\* ------------------------------------------------------- number arithmetic

\* Largest finite magnitude; beyond it a result overflows to an infinity.
FMax == 2000000000 \div Scale
PInf == FMax + 1
NInf == -(FMax + 1)
NaN == FMax + 2
\* The JavaScript value undefined of an optional field that was not supplied.
Undef == FMax + 3

IsNaN(a) == a = NaN
IsInf(a) == a = PInf \/ a = NInf
IsFinite(a) == a >= -FMax /\ a <= FMax

Abs(n) == IF n < 0 THEN -n ELSE n
Sgn(n) == IF n < 0 THEN -1 ELSE IF n > 0 THEN 1 ELSE 0
\* Integer quotient rounded toward zero (d > 0).
TruncDiv(n, d) == IF n >= 0 THEN n \div d ELSE -((-n) \div d)
Overflow(n) == IF n > FMax THEN PInf ELSE IF n < -FMax THEN NInf ELSE n
InfOf(s) == IF s < 0 THEN NInf ELSE PInf

FromInt(n) == n * Scale
One == FromInt(1)
Two == FromInt(2)

FNeg(a) == IF IsNaN(a) THEN NaN ELSE -a

FAdd(a, b) ==
  IF IsNaN(a) \/ IsNaN(b) THEN NaN
  ELSE IF IsInf(a) THEN (IF IsInf(b) /\ a # b THEN NaN ELSE a)
  ELSE IF IsInf(b) THEN b
  ELSE Overflow(a + b)

FSub(a, b) == FAdd(a, FNeg(b))

FMul(a, b) ==
  IF IsNaN(a) \/ IsNaN(b) THEN NaN
  ELSE IF a = 0 \/ b = 0 THEN (IF IsInf(a) \/ IsInf(b) THEN NaN ELSE 0)
  ELSE IF IsInf(a) \/ IsInf(b) THEN InfOf(Sgn(a) * Sgn(b))
  ELSE IF Abs(a) > (FMax * Scale) \div Abs(b) THEN InfOf(Sgn(a) * Sgn(b))
  ELSE TruncDiv(a * b, Scale)

FDiv(a, b) ==
  IF IsNaN(a) \/ IsNaN(b) THEN NaN
  ELSE IF IsInf(a) THEN (IF IsInf(b) THEN NaN
                         ELSE InfOf(Sgn(a) * (IF b < 0 THEN -1 ELSE 1)))
  ELSE IF IsInf(b) THEN 0
  ELSE IF b = 0 THEN (IF a = 0 THEN NaN ELSE InfOf(Sgn(a)))
  ELSE Overflow(Sgn(b) * TruncDiv(a * Scale, Abs(b)))

\* a < b, a > b, a >= b of IEEE numbers: false whenever one side is NaN.
FLt(a, b) == ~IsNaN(a) /\ ~IsNaN(b) /\ a < b
FGt(a, b) == FLt(b, a)
FGe(a, b) == ~IsNaN(a) /\ ~IsNaN(b) /\ a >= b

\* Math.max, Math.min, Math.abs
MathMax(a, b) == IF IsNaN(a) \/ IsNaN(b) THEN NaN ELSE IF a >= b THEN a ELSE b
MathMin(a, b) == IF IsNaN(a) \/ IsNaN(b) THEN NaN ELSE IF a <= b THEN a ELSE b
MathAbs(a) == IF IsNaN(a) THEN NaN ELSE Abs(a)

\* Math.floor, as an integer (an infinity or NaN is kept: it lies in no grid).
MathFloor(a) == IF IsFinite(a) THEN a \div Scale ELSE a

\* Largest r with r * r <= n, by bisection on lo <= r < hi.
RECURSIVE ISqrtIn(_, _, _)
ISqrtIn(n, lo, hi) ==
  IF hi - lo <= 1 THEN lo
  ELSE LET mid == (lo + hi) \div 2
       IN IF mid * mid <= n THEN ISqrtIn(n, mid, hi) ELSE ISqrtIn(n, lo, mid)
ISqrt(n) == ISqrtIn(n, 0, 46341)

\* Math.sqrt
MathSqrt(a) ==
  IF IsNaN(a) \/ a < 0 THEN NaN
  ELSE IF a = PInf THEN PInf
  ELSE ISqrt(a * Scale)

\* Math.pow(a, n) for the integer exponents the solver uses (n >= 1).
RECURSIVE MathPow(_, _)
MathPow(a, n) == IF n <= 1 THEN a ELSE FMul(MathPow(a, n - 1), a)

\* The sine of k/n turns (n > 0), Bhaskara's rational approximation: exact at
\* the multiples of 1/12 and 1/4 turn, within 0.002 elsewhere.
SinTurns(k, n) ==
  LET m == k % n
      h == IF 2 * m <= n THEN 2 * m ELSE 2 * m - n
      s == IF 2 * m <= n THEN 1 ELSE -1
      p == h * (n - h)
  IN s * ((16 * p * Scale) \div (5 * n * n - 4 * p))
CosTurns(k, n) == SinTurns(4 * k + n, 4 * n)

\* Math.sin, Math.cos of an angle in turns.
MathSin(a) == IF ~IsFinite(a) THEN NaN ELSE SinTurns(a, Scale)
MathCos(a) == IF ~IsFinite(a) THEN NaN ELSE CosTurns(a, Scale)

\* Math.exp: exp(a) = 1 + a + a^2/2! + ... + a^8/8! for a >= 0, and
\* 1 / exp(-a) for a < 0.
RECURSIVE ExpSeries(_, _, _, _)
ExpSeries(y, term, n, acc) ==
  IF n > 8 THEN acc
  ELSE LET t == FDiv(FMul(term, y), FromInt(n))
       IN ExpSeries(y, t, n + 1, FAdd(acc, t))
MathExp(a) ==
  IF IsNaN(a) THEN NaN
  ELSE IF a = PInf THEN PInf
  ELSE IF a = NInf THEN 0
  ELSE IF a >= 0 THEN ExpSeries(a, One, 1, One)
  ELSE FDiv(One, ExpSeries(-a, One, 1, One))

\* v || d of JavaScript for a number v: d when v is undefined, 0 or NaN.
OrDefault(v, d) == IF v = Undef \/ v = 0 \/ IsNaN(v) THEN d ELSE v

\* -------------------------------------------------------- solver constants

eps0 == One
mu0 == One
pmlThickness == 20
pmlOrder == 3
\* Math.log(this.pmlReflection) = ln(1e-6) = -13.816
LogPmlReflection == -((13816 * Scale) \div 1000)
\* 2 * Math.PI as a length (the circumference of the unit circle)
TwoPiLength == (6283 * Scale) \div 1000
\* 2 * Math.PI as an angle: one turn
omega == One

\* --------------------------------------------------------------- the state

VARIABLES
  params,     \* GridParams: nx, ny, dx, dy, dt
  Ez, Hx, Hy, \* field arrays, indexed by idx = j * nx + i
  epsilon, mu, sigma,   \* material arrays
  Ca, Cb, Da, Db,       \* update coefficients
  sources,    \* Source[]
  obstacles,  \* Obstacle[]
  time,       \* step counter
  lastOp,     \* the public operation called last, with its arguments
  ret,        \* what the last call returned
  before,     \* where the last call was made: the call before it, the step
              \* counter then, and whether every field was zero then
  stepsDone,  \* the number of step() calls made, run() included, since
              \* construction or the last reset()
  nops        \* the number of calls made so far

solverVars == <<params, Ez, Hx, Hy, epsilon, mu, sigma, Ca, Cb, Da, Db,
                sources, obstacles, time>>
vars == <<params, Ez, Hx, Hy, epsilon, mu, sigma, Ca, Cb, Da, Db,
          sources, obstacles, time, lastOp, ret, before, stepsDone, nops>>

Size(p) == p.nx * p.ny
Cells(p) == 0 .. (Size(p) - 1)
Fill(p, v) == [idx \in Cells(p) |-> v]
\* column i and row j of the flat index
Col(p, idx) == idx % p.nx
Row(p, idx) == idx \div p.nx
InGrid(p, i, j) == i >= 0 /\ i < p.nx /\ j >= 0 /\ j < p.ny

\* ---------------------------------------------------- coefficient compiler

updateCoefficients(p, epsA, muA, sigA) ==
  LET half(idx) == FDiv(FMul(sigA[idx], p.dt), FMul(Two, FMul(epsA[idx], eps0)))
  IN [Ca |-> [idx \in Cells(p) |->
                FDiv(FSub(One, half(idx)), FAdd(One, half(idx)))],
      Cb |-> [idx \in Cells(p) |->
                FDiv(FDiv(p.dt, FMul(epsA[idx], eps0)), FAdd(One, half(idx)))],
      Da |-> [idx \in Cells(p) |-> One],
      Db |-> [idx \in Cells(p) |-> FDiv(p.dt, FMul(muA[idx], mu0))]]

\* ------------------------------------------------------------ PML grading

MinInt(a, b) == IF a <= b THEN a ELSE b
PmlThicknessOf(p) == MinInt(pmlThickness, MinInt(p.nx, p.ny) \div 4)

\* sigmaMaxX / sigmaMaxY for the spatial step d
SigmaMax(thickness, d) ==
  FDiv(FMul(FNeg(FromInt(pmlOrder + 1)), LogPmlReflection),
       FMul(FMul(FMul(Two, MathSqrt(FDiv(mu0, eps0))), FromInt(thickness)), d))

\* An axis profile that grows towards the interior in the low band.
PmlAxisInward(sigmaMax, thickness, n, i) ==
  IF i < thickness
    THEN FMul(sigmaMax,
              MathPow(FDiv(FromInt(i + 1), FromInt(thickness)), pmlOrder))
  ELSE IF i >= n - thickness
    THEN FMul(sigmaMax,
              MathPow(MathMin(FDiv(FromInt(i - (n - thickness - 1)),
                                   FromInt(thickness)), One), pmlOrder))
  ELSE 0

\* An axis profile whose high band starts its ramp one cell late, at ratio 0.
PmlAxisHighShifted(sigmaMax, thickness, n, i) ==
  IF i < thickness
    THEN FMul(sigmaMax,
              MathPow(FDiv(FromInt(thickness - i), FromInt(thickness)), pmlOrder))
  ELSE IF i >= n - thickness
    THEN FMul(sigmaMax,
              MathPow(MathMin(FDiv(FromInt(i - (n - thickness)),
                                   FromInt(thickness)), One), pmlOrder))
  ELSE 0

\* sigmaX of column i (n = nx), sigmaY of row j (n = ny)
PmlAxis(sigmaMax, thickness, n, i) ==
  IF i < thickness
    THEN FMul(sigmaMax,
              MathPow(FDiv(FromInt(thickness - i), FromInt(thickness)), pmlOrder))
  ELSE IF i >= n - thickness
    THEN FMul(sigmaMax,
              MathPow(MathMin(FDiv(FromInt(i - (n - thickness - 1)),
                                   FromInt(thickness)), One), pmlOrder))
  ELSE 0

\* pmlSigma = sigmaX + sigmaY of every cell; nothing when thickness <= 0.
\* sigmaX depends on the column only and sigmaY on the row only.
PmlSigma(p) ==
  LET thickness == PmlThicknessOf(p)
      sigmaMaxX == SigmaMax(thickness, p.dx)
      sigmaMaxY == SigmaMax(thickness, p.dy)
      sigmaX == [i \in 0 .. (p.nx - 1) |-> PmlAxis(sigmaMaxX, thickness, p.nx, i)]
      sigmaY == [j \in 0 .. (p.ny - 1) |-> PmlAxis(sigmaMaxY, thickness, p.ny, j)]
  IN IF thickness <= 0 THEN [idx \in Cells(p) |-> 0]
     ELSE [idx \in Cells(p) |-> FAdd(sigmaX[Col(p, idx)], sigmaY[Row(p, idx)])]

\* A grading pass that writes the overlay over whatever the cell holds.
setupPMLOverwrites(p, sigA) ==
  LET pmlSigma == PmlSigma(p)
  IN [idx \in Cells(p) |->
        IF FGt(pmlSigma[idx], 0) THEN pmlSigma[idx] ELSE sigA[idx]]

setupPML(p, sigA) ==
  LET pmlSigma == PmlSigma(p)
  IN [idx \in Cells(p) |->
        IF FGt(pmlSigma[idx], 0) THEN MathMax(sigA[idx], pmlSigma[idx])
        ELSE sigA[idx]]

\* ------------------------------------------------------------ field updates

\* A magnetic update whose Hx loop runs over every row: in the last row
\* Ez[idx + nx] is read beyond the array, undefined, and the result is NaN.
updateHAllRows(p, EzA, HxA, HyA, DaA, DbA) ==
  [Hx |-> [idx \in Cells(p) |->
             IF Row(p, idx) < p.ny - 1
               THEN FSub(FMul(DaA[idx], HxA[idx]),
                         FMul(DbA[idx], FDiv(FSub(EzA[idx + p.nx], EzA[idx]), p.dy)))
               ELSE NaN],
   Hy |-> [idx \in Cells(p) |->
             IF Col(p, idx) < p.nx - 1
               THEN FAdd(FMul(DaA[idx], HyA[idx]),
                         FMul(DbA[idx], FDiv(FSub(EzA[idx + 1], EzA[idx]), p.dx)))
               ELSE HyA[idx]]]

updateH(p, EzA, HxA, HyA, DaA, DbA) ==
  [Hx |-> [idx \in Cells(p) |->
             IF Row(p, idx) < p.ny - 1
               THEN FSub(FMul(DaA[idx], HxA[idx]),
                         FMul(DbA[idx], FDiv(FSub(EzA[idx + p.nx], EzA[idx]), p.dy)))
               ELSE HxA[idx]],
   Hy |-> [idx \in Cells(p) |->
             IF Col(p, idx) < p.nx - 1
               THEN FAdd(FMul(DaA[idx], HyA[idx]),
                         FMul(DbA[idx], FDiv(FSub(EzA[idx + 1], EzA[idx]), p.dx)))
               ELSE HyA[idx]]]

updateE(p, EzA, HxA, HyA, CaA, CbA) ==
  [idx \in Cells(p) |->
     IF Row(p, idx) >= 1 /\ Col(p, idx) >= 1
       THEN LET dHy_dx == FDiv(FSub(HyA[idx], HyA[idx - 1]), p.dx)
                dHx_dy == FDiv(FSub(HxA[idx], HxA[idx - p.nx]), p.dy)
                curlH == FSub(dHy_dx, dHx_dy)
            IN FAdd(FMul(CaA[idx], EzA[idx]), FMul(CbA[idx], curlH))
       ELSE EzA[idx]]

\* The writes without those of the right column.
BoundaryWritesNoRight(p) ==
  {j * p.nx : j \in 0 .. (p.ny - 1)}
    \cup {i : i \in 0 .. (p.nx - 1)}
    \cup {(p.ny - 1) * p.nx + i : i \in 0 .. (p.nx - 1)}

\* The flat indices applyBoundaries writes.
BoundaryWrites(p) ==
  {j * p.nx : j \in 0 .. (p.ny - 1)}
    \cup {j * p.nx + p.nx - 1 : j \in 0 .. (p.ny - 1)}
    \cup {i : i \in 0 .. (p.nx - 1)}
    \cup {(p.ny - 1) * p.nx + i : i \in 0 .. (p.nx - 1)}

\* A boundary enforcement that zeroes the top and the bottom row only.
applyBoundariesRowsOnly(p, EzA) ==
  [idx \in Cells(p) |->
     IF Row(p, idx) = 0 \/ Row(p, idx) = p.ny - 1 THEN 0 ELSE EzA[idx]]

applyBoundaries(p, EzA) ==
  LET written == BoundaryWrites(p)
  IN [idx \in Cells(p) |-> IF idx \in written THEN 0 ELSE EzA[idx]]

\* ---------------------------------------------------------- source injector

Half == One \div 2
ThreeTenths == (3 * Scale) \div 10
\* x * 1e-9 (charges are given in nC)
Nano(a) == IF IsFinite(a) THEN TruncDiv(a, 1000000000) ELSE a

\* Math.sin(omega * freq * t + source.phase)
Sine(src, t) == MathSin(FAdd(FMul(FMul(omega, src.frequency), t), src.phase))

\* An injection that stores the value instead of adding it.
InjectAtOverwrites(EzA, idx, value) == [EzA EXCEPT ![idx] = value]

InjectAt(EzA, idx, value) == [EzA EXCEPT ![idx] = FAdd(@, value)]

\* case 'wire': the loop from k on
RECURSIVE WireLoop(_, _, _, _, _, _, _)
WireLoop(p, EzA, src, i, j, t, k) ==
  LET wireLength == OrDefault(src.length, FromInt(20))
      wireAngle == OrDefault(src.angle, 0)
      current == OrDefault(src.current, One)
      wi == MathFloor(FAdd(FromInt(i), FMul(FromInt(k), MathCos(wireAngle))))
      wj == MathFloor(FAdd(FromInt(j), FMul(FromInt(k), MathSin(wireAngle))))
      wireCurrent == FMul(current, Sine(src, t))
  IN IF ~FLt(FromInt(k), wireLength) THEN EzA
     ELSE WireLoop(p,
                   IF InGrid(p, wi, wj)
                     THEN InjectAt(EzA, wj * p.nx + wi,
                                   FMul(FMul(wireCurrent, src.amplitude), Half))
                     ELSE EzA,
                   src, i, j, t, k + 1)

\* case 'point-charge': charge / (r * r), r = sqrt(di^2 + dj^2) + 1e-6
ChargeOverR2(charge, di, dj) ==
  IF di = 0 /\ dj = 0 THEN FMul(charge, FromInt(1000))
  ELSE Nano(FDiv(charge, FromInt(di * di + dj * dj)))

PointCharge(p, EzA, src, i, j, t) ==
  LET charge == OrDefault(src.charge, One)
      oscillation == Sine(src, t)
  IN [cidx \in Cells(p) |->
        LET di == Col(p, cidx) - i
            dj == Row(p, cidx) - j
        IN IF di >= -10 /\ di <= 10 /\ dj >= -10 /\ dj <= 10
             THEN FAdd(EzA[cidx],
                       FMul(FMul(ChargeOverR2(charge, di, dj), oscillation),
                            src.amplitude))
             ELSE EzA[cidx]]

\* case 'magnet': polarity * strength * (3 * dx_rot * dy_rot) / r^5
DipoleField(src, di, dj) ==
  LET magnetAngle == OrDefault(src.angle, 0)
      polarity == IF src.polarity = "N-S" THEN 1 ELSE -1
      r == MathSqrt(FromInt(di * di + dj * dj))
      dx_rot == FSub(FMul(FromInt(di), MathCos(magnetAngle)),
                     FMul(FromInt(dj), MathSin(magnetAngle)))
      dy_rot == FAdd(FMul(FromInt(di), MathSin(magnetAngle)),
                     FMul(FromInt(dj), MathCos(magnetAngle)))
      num == FMul(FMul(FromInt(polarity), src.amplitude),
                  FMul(FMul(FromInt(3), dx_rot), dy_rot))
  IN IF di = 0 /\ dj = 0 THEN FMul(num, FromInt(0))
     ELSE FDiv(num, MathPow(r, 5))

Magnet(p, EzA, src, i, j, t) ==
  [midx \in Cells(p) |->
     LET di == Col(p, midx) - i
         dj == Row(p, midx) - j
     IN IF di >= -15 /\ di <= 15 /\ dj >= -15 /\ dj <= 15
          THEN FAdd(EzA[midx], FMul(DipoleField(src, di, dj), Sine(src, t)))
          ELSE EzA[midx]]

\* case 'current-loop': the loop from k on
RECURSIVE LoopLoop(_, _, _, _, _, _, _)
LoopLoop(p, EzA, src, i, j, t, k) ==
  LET loopRadius == OrDefault(src.width, FromInt(10))
      loopCurrent == OrDefault(src.current, One)
      numPoints == MathFloor(FMul(TwoPiLength, loopRadius))
      li == MathFloor(FAdd(FromInt(i), FMul(loopRadius, CosTurns(k, numPoints))))
      lj == MathFloor(FAdd(FromInt(j), FMul(loopRadius, SinTurns(k, numPoints))))
      loopField == FMul(loopCurrent, Sine(src, t))
  IN IF k >= numPoints THEN EzA
     ELSE LoopLoop(p,
                   IF InGrid(p, li, lj)
                     THEN InjectAt(EzA, lj * p.nx + li,
                                   FMul(FMul(loopField, src.amplitude), ThreeTenths))
                     ELSE EzA,
                   src, i, j, t, k + 1)

\* case 'gaussian'
GaussianValue(src, t) ==
  LET freq == src.frequency
      t0 == FDiv(FromInt(3), freq)
      tau == FDiv(One, freq)
      envelope == MathExp(FNeg(MathPow(FDiv(FSub(t, t0), tau), 2)))
  IN FMul(FMul(src.amplitude, envelope), Sine(src, t))

\* An injector that evaluates the waveforms at the end of the step,
\* t = (time + 1) * dt; the out-of-grid skip is as in the code.
ApplySourceNextTime(p, EzA, src, tm) ==
  LET i == MathFloor(src.x)
      j == MathFloor(src.y)
      idx == j * p.nx + i
      t == FMul(FromInt(tm + 1), p.dt)
  IN IF ~InGrid(p, i, j) THEN EzA
     ELSE CASE src.type \in {"dipole", "antenna", "plane-wave"} ->
                 InjectAt(EzA, idx, FMul(src.amplitude, Sine(src, t)))
            [] src.type = "gaussian" -> InjectAt(EzA, idx, GaussianValue(src, t))
            [] src.type = "wire" -> WireLoop(p, EzA, src, i, j, t, 0)
            [] src.type = "point-charge" -> PointCharge(p, EzA, src, i, j, t)
            [] src.type = "magnet" -> Magnet(p, EzA, src, i, j, t)
            [] src.type = "current-loop" -> LoopLoop(p, EzA, src, i, j, t, 0)
            [] OTHER -> EzA

\* An injector that skips a source with its centre off the grid only when
\* the source writes one cell; the area types go on to their per-cell tests.
ApplySourceAreaNoSkip(p, EzA, src, tm) ==
  LET i == MathFloor(src.x)
      j == MathFloor(src.y)
      idx == j * p.nx + i
      t == FMul(FromInt(tm), p.dt)
  IN CASE src.type = "wire" -> WireLoop(p, EzA, src, i, j, t, 0)
       [] src.type = "point-charge" -> PointCharge(p, EzA, src, i, j, t)
       [] src.type = "magnet" -> Magnet(p, EzA, src, i, j, t)
       [] src.type = "current-loop" -> LoopLoop(p, EzA, src, i, j, t, 0)
       [] OTHER ->
            IF ~InGrid(p, i, j) THEN EzA
            ELSE IF src.type = "gaussian"
              THEN InjectAt(EzA, idx, GaussianValue(src, t))
            ELSE InjectAt(EzA, idx, FMul(src.amplitude, Sine(src, t)))

\* One iteration of the loop over this.sources.
ApplySource(p, EzA, src, tm) ==
  LET i == MathFloor(src.x)
      j == MathFloor(src.y)
      idx == j * p.nx + i
      t == FMul(FromInt(tm), p.dt)
  IN IF ~InGrid(p, i, j) THEN EzA
     ELSE CASE src.type \in {"dipole", "antenna", "plane-wave"} ->
                 InjectAt(EzA, idx, FMul(src.amplitude, Sine(src, t)))
            [] src.type = "gaussian" -> InjectAt(EzA, idx, GaussianValue(src, t))
            [] src.type = "wire" -> WireLoop(p, EzA, src, i, j, t, 0)
            [] src.type = "point-charge" -> PointCharge(p, EzA, src, i, j, t)
            [] src.type = "magnet" -> Magnet(p, EzA, src, i, j, t)
            [] src.type = "current-loop" -> LoopLoop(p, EzA, src, i, j, t, 0)
            [] OTHER -> EzA

RECURSIVE ApplyFrom(_, _, _, _, _)
ApplyFrom(p, EzA, srcs, tm, n) ==
  IF n > Len(srcs) THEN EzA
  ELSE ApplyFrom(p, ApplySource(p, EzA, srcs[n], tm), srcs, tm, n + 1)

applySources(p, EzA, srcs, tm) == ApplyFrom(p, EzA, srcs, tm, 1)

\* ------------------------------------------------------------ time stepper

\* The solver object: the values of its fields.
This ==
  [params |-> params, Ez |-> Ez, Hx |-> Hx, Hy |-> Hy,
   epsilon |-> epsilon, mu |-> mu, sigma |-> sigma,
   Ca |-> Ca, Cb |-> Cb, Da |-> Da, Db |-> Db,
   sources |-> sources, obstacles |-> obstacles, time |-> time]

\* Ez as step() has it after this.applySources().
Injected(S) == applySources(S.params, S.Ez, S.sources, S.time)

\* A step that injects the sources before the magnetic update.
stepInjectsFirst(S) ==
  LET e1 == Injected(S)
      h == updateH(S.params, e1, S.Hx, S.Hy, S.Da, S.Db)
      e2 == updateE(S.params, e1, h.Hx, h.Hy, S.Ca, S.Cb)
      e3 == applyBoundaries(S.params, e2)
  IN [S EXCEPT !.Hx = h.Hx, !.Hy = h.Hy, !.Ez = e3, !.time = S.time + 1]

\* A step that increments the counter before the sources read it.
stepCountsFirst(S) ==
  LET h == updateH(S.params, S.Ez, S.Hx, S.Hy, S.Da, S.Db)
      e1 == applySources(S.params, S.Ez, S.sources, S.time + 1)
      e2 == updateE(S.params, e1, h.Hx, h.Hy, S.Ca, S.Cb)
      e3 == applyBoundaries(S.params, e2)
  IN [S EXCEPT !.Hx = h.Hx, !.Hy = h.Hy, !.Ez = e3, !.time = S.time + 1]

\* A step that treats the sources as one-shot and empties the list.
stepConsumesSources(S) ==
  LET h == updateH(S.params, S.Ez, S.Hx, S.Hy, S.Da, S.Db)
      e1 == Injected(S)
      e2 == updateE(S.params, e1, h.Hx, h.Hy, S.Ca, S.Cb)
      e3 == applyBoundaries(S.params, e2)
  IN [S EXCEPT !.Hx = h.Hx, !.Hy = h.Hy, !.Ez = e3, !.time = S.time + 1,
               !.sources = <<>>]

step(S) ==
  LET h == updateH(S.params, S.Ez, S.Hx, S.Hy, S.Da, S.Db)
      e1 == Injected(S)
      e2 == updateE(S.params, e1, h.Hx, h.Hy, S.Ca, S.Cb)
      e3 == applyBoundaries(S.params, e2)
  IN [S EXCEPT !.Hx = h.Hx, !.Hy = h.Hy, !.Ez = e3, !.time = S.time + 1]

\* A loop that stops one iteration early.
RECURSIVE RunFromOneShort(_, _, _)
RunFromOneShort(S, steps, i) ==
  IF i < steps - 1 THEN RunFromOneShort(step(S), steps, i + 1) ELSE S

\* run(steps): the loop from i on
RECURSIVE RunFrom(_, _, _)
RunFrom(S, steps, i) == IF i < steps THEN RunFrom(step(S), steps, i + 1) ELSE S
run(S, steps) == RunFrom(S, steps, 0)

\* ------------------------------------------------------- sources, obstacles

\* Array.prototype.filter: the elements that pass keep(_), in order
WithoutId(list, id) == LET keep(e) == e.id # id IN SelectSeq(list, keep)

\* A find that falls back to the first element when no id matches.
FindIdOrFirst(list, id) ==
  IF \E n \in 1 .. Len(list) : list[n].id = id
    THEN CHOOSE n \in 1 .. Len(list) :
           list[n].id = id /\ \A m \in 1 .. (n - 1) : list[m].id # id
    ELSE IF Len(list) > 0 THEN 1 ELSE 0

\* Array.prototype.find by id: the index of the first match, 0 when there is none
FindId(list, id) ==
  IF \E n \in 1 .. Len(list) : list[n].id = id
    THEN CHOOSE n \in 1 .. Len(list) :
           list[n].id = id /\ \A m \in 1 .. (n - 1) : list[m].id # id
    ELSE 0

\* Object.assign(target, updates)
ObjectAssign(target, updates) ==
  [f \in DOMAIN target |-> IF f \in DOMAIN updates THEN updates[f] ELSE target[f]]

\* An addSource that puts the source at the head of the list.
addSourceAtHead(S, source) == [S EXCEPT !.sources = <<source>> \o S.sources]

addSource(S, source) == [S EXCEPT !.sources = Append(S.sources, source)]

removeSource(S, id) == [S EXCEPT !.sources = WithoutId(S.sources, id)]

updateSource(S, id, updates) ==
  LET n == FindId(S.sources, id)
  IN IF n = 0 THEN S
     ELSE [S EXCEPT !.sources[n] = ObjectAssign(S.sources[n], updates)]

\* The cells the loops of applyObstacle / removeObstacleMaterial visit.
\* A rasterization whose loops include the right and the bottom bound.
FootprintInclusive(p, obstacle) ==
  LET x1 == MathFloor(obstacle.x)
      y1 == MathFloor(obstacle.y)
      x2 == MathFloor(FAdd(obstacle.x, obstacle.width))
      y2 == MathFloor(FAdd(obstacle.y, obstacle.height))
  IN {idx \in Cells(p) :
        /\ Col(p, idx) >= x1 /\ Col(p, idx) <= x2
        /\ Row(p, idx) >= y1 /\ Row(p, idx) <= y2}

Footprint(p, obstacle) ==
  LET x1 == MathFloor(obstacle.x)
      y1 == MathFloor(obstacle.y)
      x2 == MathFloor(FAdd(obstacle.x, obstacle.width))
      y2 == MathFloor(FAdd(obstacle.y, obstacle.height))
  IN {idx \in Cells(p) :
        /\ Col(p, idx) >= x1 /\ Col(p, idx) < x2
        /\ Row(p, idx) >= y1 /\ Row(p, idx) < y2}

Paint(p, arr, cells, v) == [idx \in Cells(p) |-> IF idx \in cells THEN v ELSE arr[idx]]

applyObstacle(S, obstacle) ==
  LET cells == Footprint(S.params, obstacle)
  IN [S EXCEPT !.epsilon = Paint(S.params, S.epsilon, cells, obstacle.material.epsilon),
               !.mu = Paint(S.params, S.mu, cells, obstacle.material.mu),
               !.sigma = Paint(S.params, S.sigma, cells, obstacle.material.sigma)]

\* A restore that leaves the permittivity of the cells as the obstacle set it.
removeObstacleMaterialKeepsEpsilon(S, obstacle) ==
  LET cells == Footprint(S.params, obstacle)
  IN [S EXCEPT !.mu = Paint(S.params, S.mu, cells, One),
               !.sigma = Paint(S.params, S.sigma, cells, 0)]

\* A restore that leaves the permeability of the cells as the obstacle set it.
removeObstacleMaterialKeepsMu(S, obstacle) ==
  LET cells == Footprint(S.params, obstacle)
  IN [S EXCEPT !.epsilon = Paint(S.params, S.epsilon, cells, One),
               !.sigma = Paint(S.params, S.sigma, cells, 0)]

removeObstacleMaterial(S, obstacle) ==
  LET cells == Footprint(S.params, obstacle)
  IN [S EXCEPT !.epsilon = Paint(S.params, S.epsilon, cells, One),
               !.mu = Paint(S.params, S.mu, cells, One),
               !.sigma = Paint(S.params, S.sigma, cells, 0)]

\* this.setupPML(); this.updateCoefficients();
Regrade(S) == [S EXCEPT !.sigma = setupPML(S.params, S.sigma)]
Recompile(S) ==
  LET c == updateCoefficients(S.params, S.epsilon, S.mu, S.sigma)
  IN [S EXCEPT !.Ca = c.Ca, !.Cb = c.Cb, !.Da = c.Da, !.Db = c.Db]

\* An addObstacle that does not recompile the coefficients.
addObstacleNoUpdateCoefficients(S, obstacle) ==
  Regrade(applyObstacle(
    [S EXCEPT !.obstacles = Append(S.obstacles, obstacle)], obstacle))

\* An addObstacle that also zeroes Ez in the cells it paints.
addObstacleClearsField(S, obstacle) ==
  Recompile(Regrade(applyObstacle(
    [S EXCEPT !.obstacles = Append(S.obstacles, obstacle),
              !.Ez = Paint(S.params, S.Ez, Footprint(S.params, obstacle), 0)],
    obstacle)))

addObstacle(S, obstacle) ==
  Recompile(Regrade(applyObstacle(
    [S EXCEPT !.obstacles = Append(S.obstacles, obstacle)], obstacle)))

\* A removal that does not re-run setupPML after restoring the cells.
removeObstacleNoSetupPML(S, id) ==
  LET n == FindId(S.obstacles, id)
  IN IF n = 0 THEN S
     ELSE Recompile(
            [removeObstacleMaterial(S, S.obstacles[n])
               EXCEPT !.obstacles = WithoutId(S.obstacles, id)])

removeObstacle(S, id) ==
  LET n == FindId(S.obstacles, id)
  IN IF n = 0 THEN S
     ELSE Recompile(Regrade(
            [removeObstacleMaterial(S, S.obstacles[n])
               EXCEPT !.obstacles = WithoutId(S.obstacles, id)]))

\* A reset that grades the PML over an all-zero conductivity map.
resetGradesFromZero(S) ==
  [S EXCEPT !.Ez = Fill(S.params, 0), !.Hx = Fill(S.params, 0),
            !.Hy = Fill(S.params, 0), !.time = 0,
            !.sigma = setupPML(S.params, Fill(S.params, 0))]

\* A reset that leaves Hy as it is.
resetKeepsHy(S) ==
  Regrade([S EXCEPT !.Ez = Fill(S.params, 0), !.Hx = Fill(S.params, 0),
                    !.time = 0])

reset(S) ==
  Regrade([S EXCEPT !.Ez = Fill(S.params, 0), !.Hx = Fill(S.params, 0),
                    !.Hy = Fill(S.params, 0), !.time = 0])

\* new MaxwellSolver(params)
Construct(p) ==
  Recompile(Regrade(
    [params |-> p, Ez |-> Fill(p, 0), Hx |-> Fill(p, 0), Hy |-> Fill(p, 0),
     epsilon |-> Fill(p, One), mu |-> Fill(p, One), sigma |-> Fill(p, 0),
     Ca |-> Fill(p, 0), Cb |-> Fill(p, 0), Da |-> Fill(p, 0), Db |-> Fill(p, 0),
     sources |-> <<>>, obstacles |-> <<>>, time |-> 0]))

\* ------------------------------------------------------------------ getters

\* arr[idx] || 0: 0 for an index outside the array and for NaN
ElementOrZero(p, arr, idx) ==
  IF idx \in Cells(p) THEN (IF IsNaN(arr[idx]) THEN 0 ELSE arr[idx]) ELSE 0

getFieldAt(S, x, y) ==
  LET i == MathFloor(x)
      j == MathFloor(y)
      idx == j * S.params.nx + i
  IN [Ez |-> ElementOrZero(S.params, S.Ez, idx),
      Hx |-> ElementOrZero(S.params, S.Hx, idx),
      Hy |-> ElementOrZero(S.params, S.Hy, idx)]

getPoyntingVector(S) ==
  [i \in Cells(S.params) |->
     LET H_mag == MathSqrt(FAdd(FMul(S.Hx[i], S.Hx[i]), FMul(S.Hy[i], S.Hy[i])))
     IN FMul(MathAbs(S.Ez[i]), H_mag)]

getIntensity(S) == [i \in Cells(S.params) |-> FMul(S.Ez[i], S.Ez[i])]

getTime(S) == FMul(FromInt(S.time), S.params.dt)

\* ------------------------------------------------- what the caller passes in

Quarter == One \div 4

\* The grids: dx = dy = 1 cell and dt = dx / (2 c), as App.tsx sets them.
Grid(nx, ny) == [nx |-> nx, ny |-> ny, dx |-> One, dy |-> One, dt |-> Half]
GridChoices == {Grid(5, 4), Grid(6, 5)}

\* A source without optional fields; the caller sets the id before addSource.
Src(type, x, y, frequency, amplitude, phase) ==
  [id |-> "", type |-> type, x |-> x, y |-> y, frequency |-> frequency,
   amplitude |-> amplitude, phase |-> phase, width |-> Undef, length |-> Undef,
   angle |-> Undef, charge |-> Undef, current |-> Undef, polarity |-> "undefined"]

Obs(x, y, width, height, eps, m, sig) ==
  [id |-> "", x |-> x, y |-> y, width |-> width, height |-> height,
   material |-> [epsilon |-> eps, mu |-> m, sigma |-> sig]]

\* Coordinates in half cells.
HalfCells(n) == n * Half

SourceInputs(p) ==
  IF p.nx = 5
    THEN {Src("dipole", HalfCells(5), HalfCells(3), Half, Two, 0),
          Src("gaussian", HalfCells(4), HalfCells(4), Two, FromInt(50), Quarter),
          [Src("wire", HalfCells(2), HalfCells(2), Half, Two, Quarter)
             EXCEPT !.length = FromInt(3), !.angle = Quarter],
          [Src("magnet", HalfCells(7), HalfCells(3), Half, FromInt(4), Quarter)
             EXCEPT !.polarity = "N-S"],
          [Src("wire", FromInt(1), FromInt(2), Half, Two, Quarter)
             EXCEPT !.length = 0, !.angle = 0, !.current = 0]}
    ELSE {Src("antenna", FromInt(3), FromInt(2), Half, Two, Quarter),
          Src("plane-wave", FromInt(0), FromInt(3), Half, Two, Quarter),
          [Src("point-charge", FromInt(7), FromInt(2), Half, Two, Quarter)
             EXCEPT !.charge = FromInt(2)],
          [Src("current-loop", FromInt(2), FromInt(2), Half, Two, Quarter)
             EXCEPT !.width = One]}

ObstacleInputs(p) ==
  IF p.nx = 5
    THEN {Obs(HalfCells(3), HalfCells(1), HalfCells(4), HalfCells(4), FromInt(4), One, 0),
          Obs(FromInt(2), FromInt(1), Two, One, One, 0, FromInt(5)),
          Obs(FromInt(3), FromInt(-1), One, FromInt(3), One, One, FNeg(One))}
  ELSE IF p.nx > 4 * pmlThickness
    THEN {Obs(FromInt(18), FromInt(40), FromInt(4), Two, One, One, FromInt(1000))}
    ELSE {Obs(FromInt(0), FromInt(2), FromInt(4), Two, One, One, FromInt(1000)),
          Obs(FromInt(4), FromInt(3), FromInt(5), One, 0, One, 0),
          Obs(FromInt(2), FromInt(1), FNeg(One), Two, FromInt(4), One, FromInt(1000))}

UpdateInputs == {[amplitude |-> FromInt(3)], [x |-> FromInt(-1), phase |-> Half]}

RunInputs == {-1, 0, 2}

ProbeInputs(p) ==
  {<<FromInt(2), FromInt(1)>>, <<FromInt(p.nx + 2), FromInt(0)>>,
   <<FromInt(-1), FromInt(2)>>, <<FromInt(1), FromInt(p.ny)>>}

\* Ids are assigned by the caller, a new one for every source and obstacle
\* (App.tsx: `source-${Date.now()}`): here the first id not in use.
SourceIds == <<"s1", "s2">>
ObstacleIds == <<"o1", "o2">>
IdInUse(list, id) == \E n \in 1 .. Len(list) : list[n].id = id
HasFreshId(list, ids) == \E n \in 1 .. Len(ids) : ~IdInUse(list, ids[n])
FreshId(list, ids) ==
  ids[CHOOSE n \in 1 .. Len(ids) :
        ~IdInUse(list, ids[n]) /\ \A m \in 1 .. (n - 1) : IdInUse(list, ids[m])]
\* The ids a caller removes or updates by: those in use, and one that is not.
IdsToTry(list) == {list[n].id : n \in 1 .. Len(list)} \cup {"none"}

\* ------------------------------------------------------------- the actions

NoRet == [kind |-> "void"]

AllZero(p, arr) == \A idx \in Cells(p) : arr[idx] = 0
Quiet(S) == AllZero(S.params, S.Ez) /\ AllZero(S.params, S.Hx) /\ AllZero(S.params, S.Hy)
Here == [op |-> lastOp, time |-> time, quiet |-> Quiet(This)]

Become(S) ==
  /\ params' = S.params
  /\ Ez' = S.Ez /\ Hx' = S.Hx /\ Hy' = S.Hy
  /\ epsilon' = S.epsilon /\ mu' = S.mu /\ sigma' = S.sigma
  /\ Ca' = S.Ca /\ Cb' = S.Cb /\ Da' = S.Da /\ Db' = S.Db
  /\ sources' = S.sources /\ obstacles' = S.obstacles
  /\ time' = S.time

\* The calls of step() a call makes, run(steps) making max(steps, 0).
StepsOf(op) ==
  IF op.op = "step" THEN 1
  ELSE IF op.op = "run" /\ op.steps > 0 THEN op.steps
  ELSE 0

Mutator(S, op) ==
  /\ nops < MaxOps
  /\ Become(S)
  /\ lastOp' = op
  /\ ret' = NoRet
  /\ before' = Here
  /\ stepsDone' = IF op.op = "reset" THEN 0 ELSE stepsDone + StepsOf(op)
  /\ nops' = nops + 1

Getter(op, value) ==
  /\ nops < MaxOps
  /\ UNCHANGED solverVars
  /\ lastOp' = op
  /\ ret' = value
  /\ before' = Here
  /\ stepsDone' = stepsDone
  /\ nops' = nops + 1

Is(S) ==
  /\ params = S.params
  /\ Ez = S.Ez /\ Hx = S.Hx /\ Hy = S.Hy
  /\ epsilon = S.epsilon /\ mu = S.mu /\ sigma = S.sigma
  /\ Ca = S.Ca /\ Cb = S.Cb /\ Da = S.Da /\ Db = S.Db
  /\ sources = S.sources /\ obstacles = S.obstacles
  /\ time = S.time

Init ==
  /\ \E p \in GridChoices : Is(Construct(p))
  /\ lastOp = [op |-> "new"]
  /\ ret = NoRet
  /\ before = [op |-> [op |-> "none"], time |-> 0, quiet |-> TRUE]
  /\ stepsDone = 0
  /\ nops = 0

Step == Mutator(step(This), [op |-> "step"])

Run == \E steps \in RunInputs : Mutator(run(This, steps), [op |-> "run", steps |-> steps])

AddSource ==
  /\ HasFreshId(sources, SourceIds)
  /\ \E input \in SourceInputs(params) :
       LET source == [input EXCEPT !.id = FreshId(sources, SourceIds)]
       IN Mutator(addSource(This, source), [op |-> "addSource", source |-> source])

RemoveSource ==
  \E id \in IdsToTry(sources) :
    Mutator(removeSource(This, id), [op |-> "removeSource", id |-> id])

UpdateSource ==
  \E id \in IdsToTry(sources), updates \in UpdateInputs :
    Mutator(updateSource(This, id, updates),
            [op |-> "updateSource", id |-> id, updates |-> updates])

AddObstacle ==
  /\ HasFreshId(obstacles, ObstacleIds)
  /\ \E input \in ObstacleInputs(params) :
       LET obstacle == [input EXCEPT !.id = FreshId(obstacles, ObstacleIds)]
       IN Mutator(addObstacle(This, obstacle),
                  [op |-> "addObstacle", obstacle |-> obstacle])

RemoveObstacle ==
  \E id \in IdsToTry(obstacles) :
    Mutator(removeObstacle(This, id), [op |-> "removeObstacle", id |-> id])

Reset == Mutator(reset(This), [op |-> "reset"])

GetFieldAt ==
  \E xy \in ProbeInputs(params) :
    Getter([op |-> "getFieldAt", x |-> xy[1], y |-> xy[2]],
           [kind |-> "field", value |-> getFieldAt(This, xy[1], xy[2])])

GetIntensity ==
  Getter([op |-> "getIntensity"], [kind |-> "array", value |-> getIntensity(This)])

GetPoyntingVector ==
  Getter([op |-> "getPoyntingVector"],
         [kind |-> "array", value |-> getPoyntingVector(This)])

GetTime == Getter([op |-> "getTime"], [kind |-> "number", value |-> getTime(This)])

Next ==
  \/ Step
  \/ Run
  \/ AddSource
  \/ RemoveSource
  \/ UpdateSource
  \/ AddObstacle
  \/ RemoveObstacle
  \/ Reset
  \/ GetFieldAt
  \/ GetIntensity
  \/ GetPoyntingVector
  \/ GetTime

Spec == Init /\ [][Next]_vars

\* The grids of the PML study: thickness 0, 2, 3 and the full 20 cells,
\* with dx # dy in one of them.
PmlGridChoices ==
  {Grid(3, 3), Grid(8, 9), [Grid(13, 12) EXCEPT !.dy = Two], Grid(84, 85)}

InitPml ==
  /\ \E p \in PmlGridChoices : Is(Construct(p))
  /\ lastOp = [op |-> "new"]
  /\ ret = NoRet
  /\ before = [op |-> [op |-> "none"], time |-> 0, quiet |-> TRUE]
  /\ stepsDone = 0
  /\ nops = 0

NextPml ==
  \/ AddObstacle
  \/ RemoveObstacle
  \/ Reset

\* The operations that write sigma, on grids with bands of several cells.
SpecPml == InitPml /\ [][NextPml]_vars

\* --------------------------------------------------------------- properties

\* The outer rim: row 0, row ny-1, column 0, column nx-1.
RimCells(p) ==
  {idx \in Cells(p) : \/ Col(p, idx) = 0 \/ Col(p, idx) = p.nx - 1
                      \/ Row(p, idx) = 0 \/ Row(p, idx) = p.ny - 1}

\* The last call was step(), or run(steps) with at least one step.
Stepped == lastOp.op = "step" \/ (lastOp.op = "run" /\ lastOp.steps > 0)

\* The cell a source sits in.
SourceCell(p, src) == MathFloor(src.y) * p.nx + MathFloor(src.x)

\* The materials and coefficients are those of construction.
Pristine ==
  LET fresh == Construct(params)
  IN /\ epsilon = fresh.epsilon /\ mu = fresh.mu /\ sigma = fresh.sigma
     /\ Ca = fresh.Ca /\ Cb = fresh.Cb /\ Da = fresh.Da /\ Db = fresh.Db

\* The last two calls were addObstacle(o) and removeObstacle(o.id).
AddThenRemove ==
  /\ lastOp.op = "removeObstacle"
  /\ before.op.op = "addObstacle"
  /\ before.op.obstacle.id = lastOp.id

\* C1: after every step() (and so after every run of at least one step),
\* whatever came before, Ez is exactly 0 in every cell of row 0, row ny-1,
\* column 0 and column nx-1.
C1_BoundaryClamp == Stepped => \A idx \in RimCells(params) : Ez[idx] = 0

\* A step in which the sources wrote a nonzero value into a rim cell.
C1_Witness ==
  /\ Stepped
  /\ \E idx \in RimCells(params) :
       /\ applySources(params, Fill(params, 0), sources, time - 1)[idx] # 0
       /\ Ez[idx] = 0

\* C2: with an empty source list and all-zero Ez, Hx, Hy, a step() or a
\* run() leaves every cell of Ez, Hx and Hy zero.
C2_VacuumQuiescence ==
  [][(sources = <<>> /\ Quiet(This) /\ lastOp'.op \in {"step", "run"})
       => Quiet(This')]_vars

\* C3: reset() leaves getTime() = 0 and every cell of Ez, Hx, Hy zero, and
\* the source list and the obstacle list as they were before the call.
C3_ResetContract ==
  [][lastOp'.op = "reset"
       => /\ getTime(This') = 0
          /\ Quiet(This')
          /\ sources' = sources
          /\ obstacles' = obstacles]_vars

\* reset() called after steps that left nonzero fields, with a source listed.
C3_Witness ==
  /\ lastOp.op = "reset"
  /\ before.time > 0 /\ ~before.quiet
  /\ Len(sources) > 0
  /\ time = 0 /\ Quiet(This)

\* C4 as stated: addObstacle(o) then removeObstacle(o.id) leaves every cell
\* of o's footprint with epsilon = 1, mu = 1 and sigma = 0.
C4_SigmaZero ==
  AddThenRemove =>
    \A idx \in Footprint(params, before.op.obstacle) :
      epsilon[idx] = One /\ mu[idx] = One /\ sigma[idx] = 0

\* C4: addObstacle(o) then removeObstacle(o.id) leaves every cell of o's
\* footprint with epsilon = 1, mu = 1 and sigma equal to the PML conductivity
\* of that cell, sigmaX + sigmaY, which is 0 outside the PML band only.
C4_SigmaIsPml ==
  AddThenRemove =>
    \A idx \in Footprint(params, before.op.obstacle) :
      epsilon[idx] = One /\ mu[idx] = One /\ sigma[idx] = PmlSigma(params)[idx]

\* An obstacle added and removed whose footprint has a cell in the PML band.
C4_Witness ==
  /\ AddThenRemove
  /\ \E idx \in Footprint(params, before.op.obstacle) :
       /\ FGt(PmlSigma(params)[idx], 0)
       /\ sigma[idx] = PmlSigma(params)[idx]
       /\ epsilon[idx] = One /\ mu[idx] = One

\* C5: on a freshly constructed solver, addObstacle(o) then
\* removeObstacle(o.id) leaves Ca, Cb, Da, Db, epsilon, mu and sigma equal
\* in every cell to their values right after construction.
C5_CoefficientsRestored == (nops = 2 /\ AddThenRemove) => Pristine

\* The two calls made on a fresh solver, with an obstacle that changed a
\* coefficient of some cell while it was there.
C5_Witness ==
  /\ nops = 2 /\ AddThenRemove /\ Pristine
  /\ LET painted == addObstacle(Construct(params), before.op.obstacle)
     IN \E idx \in Cells(params) :
          painted.Ca[idx] # Ca[idx] \/ painted.Cb[idx] # Cb[idx] \/ painted.Db[idx] # Db[idx]

\* C6: getFieldAt(x, y) returns Ez = 0, Hx = 0, Hy = 0 whenever the cell
\* (floor x, floor y) is outside the grid, in every field state.
C6_OutOfGridIsZero ==
  (/\ lastOp.op = "getFieldAt"
   /\ ~InGrid(params, MathFloor(lastOp.x), MathFloor(lastOp.y)))
    => ret.value = [Ez |-> 0, Hx |-> 0, Hy |-> 0]

\* The first step() of a fresh solver with no obstacles whose only source
\* is a dipole of phase 0 at an interior cell is about to be taken.
FirstDipoleStep ==
  /\ time = 0 /\ Quiet(This) /\ obstacles = <<>> /\ Pristine
  /\ Len(sources) = 1
  /\ sources[1].type = "dipole" /\ sources[1].phase = 0
  /\ InGrid(params, MathFloor(sources[1].x), MathFloor(sources[1].y))
  /\ SourceCell(params, sources[1]) \notin RimCells(params)
  /\ lastOp'.op = "step"

\* C7 as stated: the value injected at the source cell during the first
\* step() is A * sin(2 pi f dt).
C7_InjectsAtDt ==
  [][FirstDipoleStep
       => Injected(This)[SourceCell(params, sources[1])]
            = FMul(sources[1].amplitude,
                   MathSin(FMul(FMul(omega, sources[1].frequency), params.dt)))]_vars

\* C7: the value injected at the source cell during the first step() is
\* A * sin(2 pi f * 0) = 0: the sinusoid is evaluated at time 0, the step
\* counter before its increment, and Ez at the source cell is that value
\* times Ca after the step.
C7_InjectsAtZero ==
  [][FirstDipoleStep
       => LET cell == SourceCell(params, sources[1])
              value == FMul(sources[1].amplitude,
                            MathSin(FMul(FMul(omega, sources[1].frequency), 0)))
          IN /\ value = 0
             /\ Injected(This)[cell] = value
             /\ Ez'[cell] = FMul(Ca[cell], value)]_vars

\* The first step taken, with a dipole for which A * sin(2 pi f dt) # 0.
C7_Witness ==
  /\ lastOp.op = "step" /\ time = 1
  /\ before.time = 0 /\ before.quiet
  /\ obstacles = <<>> /\ Pristine
  /\ Len(sources) = 1
  /\ sources[1].type = "dipole" /\ sources[1].phase = 0
  /\ SourceCell(params, sources[1]) \in Cells(params) \ RimCells(params)
  /\ FMul(sources[1].amplitude,
          MathSin(FMul(FMul(omega, sources[1].frequency), params.dt))) # 0
  /\ Ez[SourceCell(params, sources[1])] = 0

\* C9: every element getIntensity() and getPoyntingVector() return is >= 0,
\* and the call changes no field, material, coefficient, list or counter.
C9_DiagnosticsNonNegative ==
  [][lastOp'.op \in {"getIntensity", "getPoyntingVector"}
       => /\ \A idx \in Cells(params) : FGe(ret'.value[idx], 0)
          /\ UNCHANGED solverVars]_vars

\* C10: with no obstacles and T = min(20, floor(min(nx, ny) / 4)), sigma
\* does not decrease from a cell of an edge band to its neighbour nearer
\* the edge, along every row and every column, and sigma is 0 in every
\* cell with T <= i < nx - T and T <= j < ny - T.
C10_PmlMonotone ==
  obstacles = <<>> =>
    LET T == MinInt(20, MinInt(params.nx, params.ny) \div 4)
        nx == params.nx
        ny == params.ny
        At(i, j) == sigma[j * nx + i]
    IN /\ \A j \in 0 .. (ny - 1) :
            /\ \A i \in 1 .. (T - 1) : FGe(At(i - 1, j), At(i, j))
            /\ \A i \in (nx - T) .. (nx - 2) : FGe(At(i + 1, j), At(i, j))
       /\ \A i \in 0 .. (nx - 1) :
            /\ \A j \in 1 .. (T - 1) : FGe(At(i, j - 1), At(i, j))
            /\ \A j \in (ny - T) .. (ny - 2) : FGe(At(i, j + 1), At(i, j))
       /\ \A i \in T .. (nx - T - 1), j \in T .. (ny - T - 1) : At(i, j) = 0

\* A band of 20 cells, regraded after an obstacle in it was removed, with
\* sigma strictly larger at the edge than at the inner end of the band.
C10_Witness ==
  /\ obstacles = <<>>
  /\ lastOp.op = "removeObstacle" /\ before.op.op = "addObstacle"
  /\ MinInt(20, MinInt(params.nx, params.ny) \div 4) = 20
  /\ FGt(sigma[40 * params.nx], sigma[40 * params.nx + 19])
  /\ sigma[40 * params.nx + 20] = 0

\* n calls of step(), one after the other.
RECURSIVE StepTimes(_, _)
StepTimes(S, n) == IF n <= 0 THEN S ELSE step(StepTimes(S, n - 1))

\* C11: run(steps) leaves the solver as max(steps, 0) calls of step() leave
\* it: the counter is the counter before plus max(steps, 0), getTime() is
\* that counter times dt, and for steps <= 0 nothing of the solver changes.
C11_RunIsSteps ==
  [][lastOp'.op = "run"
       => LET steps == lastOp'.steps
              n == IF steps > 0 THEN steps ELSE 0
          IN /\ This' = StepTimes(This, n)
             /\ time' = time + n
             /\ getTime(This') = FMul(FromInt(time + n), params.dt)
             /\ (steps <= 0 => UNCHANGED solverVars)]_vars

\* run(2) called after an earlier step, with sources that made fields nonzero.
C11_Witness ==
  /\ lastOp.op = "run" /\ lastOp.steps = 2
  /\ before.time > 0
  /\ time = before.time + 2
  /\ ~Quiet(This)

\* C12: removeSource(id) and updateSource(id, fields) with an id no listed
\* source has, and removeObstacle(id) with an id no listed obstacle has,
\* change nothing of the solver: lists, maps, coefficients, fields, counter.
C12_AbsentIdNoOp ==
  [][(\/ /\ lastOp'.op \in {"removeSource", "updateSource"}
         /\ ~IdInUse(sources, lastOp'.id)
      \/ /\ lastOp'.op = "removeObstacle"
         /\ ~IdInUse(obstacles, lastOp'.id))
       => UNCHANGED solverVars]_vars

\* removeObstacle with an unknown id, called with an obstacle and a source
\* listed.
C12_Witness ==
  /\ lastOp.op = "removeObstacle"
  /\ ~IdInUse(obstacles, lastOp.id)
  /\ Len(obstacles) > 0 /\ Len(sources) > 0

\* The centre cell (floor x, floor y) of a source is in the grid.
CentreInGrid(p, src) == InGrid(p, MathFloor(src.x), MathFloor(src.y))

\* What the case of an area type adds to an all-zero Ez at step counter tm,
\* its per-cell bounds tests included and the test of the centre left out.
AreaWrites(p, src, tm) ==
  LET i == MathFloor(src.x)
      j == MathFloor(src.y)
      t == FMul(FromInt(tm), p.dt)
      zero == Fill(p, 0)
  IN CASE src.type = "wire" -> WireLoop(p, zero, src, i, j, t, 0)
       [] src.type = "point-charge" -> PointCharge(p, zero, src, i, j, t)
       [] src.type = "magnet" -> Magnet(p, zero, src, i, j, t)
       [] src.type = "current-loop" -> LoopLoop(p, zero, src, i, j, t, 0)
       [] OTHER -> zero

\* C13: a step() or run() leaves Ez, Hx, Hy and the counter as it would
\* with every source whose centre cell is outside the grid taken out of the
\* list, whatever the type of the source.
C13_OffGridSourceInert ==
  [][lastOp'.op \in {"step", "run"}
       => LET keep(src) == CentreInGrid(params, src)
              without == [This EXCEPT !.sources = SelectSeq(sources, keep)]
              n == IF lastOp'.op = "step" THEN 1 ELSE lastOp'.steps
              expected == StepTimes(without, n)
          IN /\ Ez' = expected.Ez /\ Hx' = expected.Hx /\ Hy' = expected.Hy
             /\ time' = expected.time]_vars

\* Steps taken with an area source listed whose centre is off the grid and
\* whose footprint has in-grid cells it would have written a nonzero value to.
C13_Witness ==
  /\ Stepped
  /\ \E n \in 1 .. Len(sources) :
       /\ ~CentreInGrid(params, sources[n])
       /\ sources[n].type \in {"wire", "point-charge", "magnet", "current-loop"}
       /\ AreaWrites(params, sources[n], time - 1) # Fill(params, 0)

\* C14: reset() leaves epsilon, mu and sigma of every cell as they were,
\* whatever obstacles were added or removed before.
C14_ResetKeepsMaterials ==
  [][lastOp'.op = "reset"
       => epsilon' = epsilon /\ mu' = mu /\ sigma' = sigma]_vars

\* reset() called with an obstacle listed that has a cell in the PML band
\* and a cell whose conductivity is not the PML value.
C14_Witness ==
  /\ lastOp.op = "reset"
  /\ \E n \in 1 .. Len(obstacles) :
       /\ \E idx \in Footprint(params, obstacles[n]) : FGt(PmlSigma(params)[idx], 0)
       /\ \E idx \in Footprint(params, obstacles[n]) : sigma[idx] # PmlSigma(params)[idx]

\* C15: addSource(s) appends s to the list; removeSource(id) takes the
\* sources of that id out and keeps the others in their order;
\* updateSource(id, fields) sets the given fields of the matching source and
\* changes neither its other fields, nor its position, nor any other source.
C15_SourceListOps ==
  [][/\ lastOp'.op = "addSource"
          => /\ Len(sources') = Len(sources) + 1
             /\ sources'[Len(sources')] = lastOp'.source
             /\ \A n \in 1 .. Len(sources) : sources'[n] = sources[n]
     /\ lastOp'.op = "removeSource"
          => LET others == {n \in 1 .. Len(sources) : sources[n].id # lastOp'.id}
                 nth(k) == CHOOSE n \in others :
                             Cardinality({m \in others : m < n}) = k - 1
             IN /\ Len(sources') = Cardinality(others)
                /\ \A k \in 1 .. Len(sources') : sources'[k] = sources[nth(k)]
     /\ lastOp'.op = "updateSource"
          => /\ Len(sources') = Len(sources)
             /\ \A n \in 1 .. Len(sources) :
                  IF /\ sources[n].id = lastOp'.id
                     /\ \A m \in 1 .. (n - 1) : sources[m].id # lastOp'.id
                    THEN /\ DOMAIN sources'[n] = DOMAIN sources[n]
                         /\ \A f \in DOMAIN sources[n] :
                              sources'[n][f] = IF f \in DOMAIN lastOp'.updates
                                                 THEN lastOp'.updates[f]
                                                 ELSE sources[n][f]
                    ELSE sources'[n] = sources[n]]_vars

\* updateSource on one of two listed sources, which changed a field of it.
C15_Witness ==
  /\ lastOp.op = "updateSource"
  /\ Len(sources) = 2
  /\ \E n \in 1 .. 2 :
       /\ sources[n].id = lastOp.id
       /\ before.op.op = "addSource" /\ before.op.source.id = lastOp.id
       /\ \E f \in DOMAIN lastOp.updates :
            /\ sources[n][f] = lastOp.updates[f]
            /\ before.op.source[f] # lastOp.updates[f]

\* C16: in one step() the magnetic update reads Ez as it was before the
\* injection; the electric update takes Ez with this step's injected values
\* in it, so that these are scaled by Ca, and reads the H just updated; the
\* rim is zeroed after the electric update; the counter is incremented,
\* after the injection has read it.
C16_PhaseOrder ==
  [][lastOp'.op = "step"
       => LET h == updateH(params, Ez, Hx, Hy, Da, Db)
              injected == applySources(params, Ez, sources, time)
              nx == params.nx
          IN /\ Hx' = h.Hx /\ Hy' = h.Hy
             /\ \A idx \in Cells(params) \ RimCells(params) :
                  Ez'[idx] =
                    FAdd(FMul(Ca[idx], injected[idx]),
                         FMul(Cb[idx],
                              FSub(FDiv(FSub(Hy'[idx], Hy'[idx - 1]), params.dx),
                                   FDiv(FSub(Hx'[idx], Hx'[idx - nx]), params.dy))))
             /\ \A idx \in RimCells(params) : Ez'[idx] = 0
             /\ time' = time + 1]_vars

\* A first step from zero fields in which a source injected a nonzero value
\* into an interior cell with Ca # 1: H is still zero after the step, and Ez
\* of the cell is Ca times the injected value.
C16_Witness ==
  /\ lastOp.op = "step" /\ before.quiet
  /\ AllZero(params, Hx) /\ AllZero(params, Hy)
  /\ \E idx \in Cells(params) \ RimCells(params) :
       LET injected == applySources(params, Fill(params, 0), sources, time - 1)
       IN /\ injected[idx] # 0
          /\ Ca[idx] # One
          /\ Ez[idx] = FMul(Ca[idx], injected[idx])
          /\ Ez[idx] # injected[idx]

\* C17: the k-th step() since construction or the last reset() evaluates
\* every source at t = (k - 1) * dt: what the electric update scales by Ca
\* is Ez with the sources added at the count of the steps made before.
C17_PreUpdateTime ==
  [][lastOp'.op = "step"
       => LET k == stepsDone + 1
              injected == applySources(params, Ez, sources, k - 1)
              nx == params.nx
          IN /\ stepsDone' = k
             /\ time = k - 1
             /\ \A idx \in Cells(params) \ RimCells(params) :
                  Ez'[idx] =
                    FAdd(FMul(Ca[idx], injected[idx]),
                         FMul(Cb[idx],
                              FSub(FDiv(FSub(Hy'[idx], Hy'[idx - 1]), params.dx),
                                   FDiv(FSub(Hx'[idx], Hx'[idx - nx]), params.dy))))]_vars

\* A second or later step with a source whose value at (k - 1) * dt is not
\* its value at k * dt.
C17_Witness ==
  /\ lastOp.op = "step" /\ stepsDone >= 2
  /\ \E idx \in Cells(params) \ RimCells(params) :
       applySources(params, Fill(params, 0), sources, stepsDone - 1)[idx]
         # applySources(params, Fill(params, 0), sources, stepsDone)[idx]

\* C18: after construction and after every public operation, Ca, Cb, Da
\* and Db of every cell are what updateCoefficients computes from the
\* epsilon, mu and sigma the cell has now.
C18_CoefficientsDerived ==
  LET c == updateCoefficients(params, epsilon, mu, sigma)
  IN Ca = c.Ca /\ Cb = c.Cb /\ Da = c.Da /\ Db = c.Db

\* reset() called with an obstacle listed that made a coefficient of some
\* cell differ from its value after construction.
C18_Witness ==
  /\ lastOp.op = "reset"
  /\ Len(obstacles) > 0
  /\ \E idx \in Cells(params) :
       Ca[idx] # Construct(params).Ca[idx] \/ Cb[idx] # Construct(params).Cb[idx]

\* The conductivity map that the grading pass of the call just made was
\* given: after addObstacle the map with the obstacle painted, after
\* removeObstacle of a listed id the map with its cells reset, after reset()
\* the map as it was.
GradedFrom ==
  CASE lastOp'.op = "addObstacle" -> applyObstacle(This, lastOp'.obstacle).sigma
    [] lastOp'.op = "removeObstacle" /\ IdInUse(obstacles, lastOp'.id) ->
         removeObstacleMaterial(This, obstacles[FindId(obstacles, lastOp'.id)]).sigma
    [] OTHER -> sigma

\* A grading pass changes sigma of a cell only to raise it to the overlay
\* of the cell, the overlay being above what the cell held.
GradingOnlyRaises ==
  (\/ lastOp'.op \in {"addObstacle", "reset"}
   \/ lastOp'.op = "removeObstacle" /\ IdInUse(obstacles, lastOp'.id))
    => \A idx \in Cells(params) :
         sigma'[idx] # GradedFrom[idx]
           => /\ sigma'[idx] = PmlSigma(params)[idx]
              /\ FGt(PmlSigma(params)[idx], GradedFrom[idx])

\* C19 as stated: in every state sigma of every cell is at least the PML
\* overlay of the cell, and a grading pass only raises sigma to the overlay.
C19_SigmaAtLeastOverlay ==
  /\ [](\A idx \in Cells(params) : FGe(sigma[idx], PmlSigma(params)[idx]))
  /\ [][GradingOnlyRaises]_vars

\* C19: in every state sigma of every cell whose PML overlay is positive is
\* at least the overlay, and a grading pass only raises sigma to the
\* overlay; a cell whose overlay is 0 keeps the sigma the obstacle gave it,
\* a negative one too.
C19_SigmaAtLeastPositiveOverlay ==
  /\ [](\A idx \in Cells(params) :
          FGt(PmlSigma(params)[idx], 0) => FGe(sigma[idx], PmlSigma(params)[idx]))
  /\ [][GradingOnlyRaises]_vars
  /\ [][lastOp'.op = "addObstacle"
          => \A idx \in Footprint(params, lastOp'.obstacle) :
               PmlSigma(params)[idx] = 0
                 => sigma'[idx] = lastOp'.obstacle.material.sigma]_vars

\* Obstacles are listed of which one has, in a cell of the band, a
\* conductivity above the overlay, which the cell kept, and one a
\* conductivity below the overlay, which the pass raised to the overlay.
C19_Witness ==
  /\ lastOp.op = "addObstacle"
  /\ \E n \in 1 .. Len(obstacles) :
       \E idx \in Footprint(params, obstacles[n]) :
         /\ FGt(PmlSigma(params)[idx], 0)
         /\ FGt(obstacles[n].material.sigma, PmlSigma(params)[idx])
         /\ sigma[idx] = obstacles[n].material.sigma
  /\ \E n \in 1 .. Len(obstacles) :
       \E idx \in Footprint(params, obstacles[n]) :
         /\ FGt(PmlSigma(params)[idx], obstacles[n].material.sigma)
         /\ sigma[idx] = PmlSigma(params)[idx]

\* Cell (i, j) lies in the half-open integer rectangle of the obstacle.
InRectangle(obstacle, i, j) ==
  /\ MathFloor(obstacle.x) <= i
  /\ i < MathFloor(FAdd(obstacle.x, obstacle.width))
  /\ MathFloor(obstacle.y) <= j
  /\ j < MathFloor(FAdd(obstacle.y, obstacle.height))

\* Every cell outside the rectangle of the added obstacle keeps its
\* permittivity, permeability and conductivity.
OutsideKept ==
  \A i \in 0 .. (params.nx - 1) : \A j \in 0 .. (params.ny - 1) :
    LET idx == j * params.nx + i
    IN ~InRectangle(lastOp'.obstacle, i, j)
         => /\ epsilon'[idx] = epsilon[idx]
            /\ mu'[idx] = mu[idx]
            /\ sigma'[idx] = sigma[idx]

\* C20 as stated: after addObstacle(o) every grid cell of the rectangle has
\* the material's epsilon and mu and sigma = max(material sigma, overlay),
\* and every other cell keeps epsilon, mu and sigma.
C20_FootprintMaxSigma ==
  [][lastOp'.op = "addObstacle"
       => /\ \A i \in 0 .. (params.nx - 1) : \A j \in 0 .. (params.ny - 1) :
               LET idx == j * params.nx + i
                   o == lastOp'.obstacle
               IN InRectangle(o, i, j)
                    => /\ epsilon'[idx] = o.material.epsilon
                       /\ mu'[idx] = o.material.mu
                       /\ sigma'[idx]
                            = MathMax(o.material.sigma, PmlSigma(params)[idx])
          /\ OutsideKept]_vars

\* C20: after addObstacle(o) every grid cell of the rectangle has the
\* material's epsilon and mu; its sigma is max(material sigma, overlay)
\* where the overlay is positive and the material's sigma where the overlay
\* is 0; every other cell keeps epsilon, mu and sigma, so a rectangle with
\* width <= 0 or height <= 0 changes no cell and the part of a rectangle
\* outside the grid has no effect.
C20_Footprint ==
  [][lastOp'.op = "addObstacle"
       => /\ \A i \in 0 .. (params.nx - 1) : \A j \in 0 .. (params.ny - 1) :
               LET idx == j * params.nx + i
                   o == lastOp'.obstacle
                   overlay == PmlSigma(params)[idx]
               IN InRectangle(o, i, j)
                    => /\ epsilon'[idx] = o.material.epsilon
                       /\ mu'[idx] = o.material.mu
                       /\ sigma'[idx]
                            = IF FGt(overlay, 0)
                                THEN MathMax(o.material.sigma, overlay)
                                ELSE o.material.sigma
          /\ OutsideKept
          /\ (\/ ~FGt(lastOp'.obstacle.width, 0)
              \/ ~FGt(lastOp'.obstacle.height, 0))
               => /\ epsilon' = epsilon /\ mu' = mu /\ sigma' = sigma
                  /\ Ca' = Ca /\ Cb' = Cb /\ Da' = Da /\ Db' = Db]_vars

\* The obstacle added last has a rectangle that reaches out of the grid, a
\* cell in the band whose sigma is the overlay and a cell outside the band
\* whose sigma is the material's negative conductivity.
C20_Witness ==
  /\ lastOp.op = "addObstacle"
  /\ FGt(0, lastOp.obstacle.y)
  /\ FGt(0, lastOp.obstacle.material.sigma)
  /\ \E i \in 0 .. (params.nx - 1) : \E j \in 0 .. (params.ny - 1) :
       /\ InRectangle(lastOp.obstacle, i, j)
       /\ FGt(PmlSigma(params)[j * params.nx + i], 0)
       /\ sigma[j * params.nx + i] = PmlSigma(params)[j * params.nx + i]
       /\ mu[j * params.nx + i] = lastOp.obstacle.material.mu
  /\ \E i \in 0 .. (params.nx - 1) : \E j \in 0 .. (params.ny - 1) :
       /\ InRectangle(lastOp.obstacle, i, j)
       /\ PmlSigma(params)[j * params.nx + i] = 0
       /\ sigma[j * params.nx + i] = lastOp.obstacle.material.sigma

\* What one source adds to each cell at step counter tm: its injection
\* into a field of zeros.
Alone(p, src, tm) == ApplySource(p, Fill(p, 0), src, tm)

\* The cell-wise sum of what the sources from the n-th on add alone.
RECURSIVE SumAlone(_, _, _, _)
SumAlone(p, srcs, tm, n) ==
  IF n > Len(srcs) THEN Fill(p, 0)
  ELSE LET rest == SumAlone(p, srcs, tm, n + 1)
           first == Alone(p, srcs[n], tm)
       IN [idx \in Cells(p) |-> FAdd(first[idx], rest[idx])]

\* The solver with its source list in the order f.
Reordered(S, f) ==
  [S EXCEPT !.sources = [n \in 1 .. Len(S.sources) |-> S.sources[f[n]]]]

\* C21: in every state the injection phase of a step adds to every cell of
\* Ez the sum of what each listed source adds alone, and a step from the
\* state with the source list in any other order gives the same Ez, Hx, Hy.
C21_Additive ==
  /\ LET sum == SumAlone(params, sources, time, 1)
     IN Injected(This) = [idx \in Cells(params) |-> FAdd(Ez[idx], sum[idx])]
  /\ \A f \in Permutations(1 .. Len(sources)) :
       LET a == step(This)
           b == step(Reordered(This, f))
       IN a.Ez = b.Ez /\ a.Hx = b.Hx /\ a.Hy = b.Hy

\* Steps were taken with two sources listed that both add a nonzero value
\* to one cell, at the last step and at the next, and Ez is nonzero there.
C21_Witness ==
  /\ Stepped
  /\ Len(sources) = 2
  /\ before.op.op = "addSource"
  /\ \E idx \in Cells(params) :
       /\ Ez[idx] # 0
       /\ \A n \in 1 .. 2 :
            /\ Alone(params, sources[n], time)[idx] # 0
            /\ Alone(params, sources[n], time - 1)[idx] # 0

\* C22: every call other than step(), run() and reset() leaves every cell
\* of Ez, Hx and Hy and the step counter as they were.
C22_FieldsFrame ==
  [][lastOp'.op \notin {"step", "run", "reset"}
       => Ez' = Ez /\ Hx' = Hx /\ Hy' = Hy /\ time' = time]_vars

\* An obstacle was added over a cell holding a nonzero Ez, after a step.
C22_Witness ==
  /\ lastOp.op = "addObstacle"
  /\ time > 0
  /\ \E idx \in Footprint(params, lastOp.obstacle) : Ez[idx] # 0 /\ Hy[idx] # 0

\* C23: step() and run() leave the grid, the material maps, the coefficient
\* maps, the source list and the obstacle list as they were.
C23_ConfigurationFrame ==
  [][lastOp'.op \in {"step", "run"}
       => /\ params' = params
          /\ epsilon' = epsilon /\ mu' = mu /\ sigma' = sigma
          /\ Ca' = Ca /\ Cb' = Cb /\ Da' = Da /\ Db' = Db
          /\ sources' = sources /\ obstacles' = obstacles]_vars

\* Steps were taken with a source and an obstacle listed, and they changed
\* the fields.
C23_Witness ==
  /\ Stepped
  /\ Len(sources) > 0
  /\ Len(obstacles) > 0
  /\ \E idx \in Cells(params) : epsilon[idx] # One \/ sigma[idx] > PmlSigma(params)[idx]
  /\ ~Quiet(This)

\* A step changes Hx in every row but the last from the difference of Ez
\* to the cell below, and Hy in every column but the last from the
\* difference of Ez to the next cell of the row.
ForwardDifferences ==
  lastOp'.op = "step"
    => \A i \in 0 .. (params.nx - 1) : \A j \in 0 .. (params.ny - 1) :
         LET idx == j * params.nx + i
         IN /\ j < params.ny - 1
                 => Hx'[idx]
                      = FSub(FMul(Da[idx], Hx[idx]),
                             FMul(Db[idx],
                                  FDiv(FSub(Ez[(j + 1) * params.nx + i], Ez[idx]),
                                       params.dy)))
            /\ i < params.nx - 1
                 => Hy'[idx]
                      = FAdd(FMul(Da[idx], Hy[idx]),
                             FMul(Db[idx],
                                  FDiv(FSub(Ez[j * params.nx + i + 1], Ez[idx]),
                                       params.dx)))

\* C24: in every state Hx is 0 in the last row and Hy is 0 in the last
\* column, and a step computes Hx and Hy of the other cells from the
\* forward differences of Ez within the column and within the row.
C24_ForwardNeighbour ==
  /\ [](/\ \A i \in 0 .. (params.nx - 1) : Hx[(params.ny - 1) * params.nx + i] = 0
        /\ \A j \in 0 .. (params.ny - 1) : Hy[j * params.nx + params.nx - 1] = 0)
  /\ [][ForwardDifferences]_vars

\* Steps have made Hx nonzero in the row before the last and Hy nonzero in
\* the column before the last.
C24_Witness ==
  /\ Stepped
  /\ \E i \in 0 .. (params.nx - 1) : Hx[(params.ny - 2) * params.nx + i] # 0
  /\ \E j \in 0 .. (params.ny - 1) : Hy[j * params.nx + params.nx - 2] # 0
  /\ \A i \in 0 .. (params.nx - 1) : Hx[(params.ny - 1) * params.nx + i] = 0

\* C25 as stated: what a listed wire source with its centre in the grid
\* adds to Ez is I * sin(omega * freq * t + phase) * amplitude * 0.5 at the
\* cell (floor(i + k cos theta), floor(j + k sin theta)) for every k in
\* 0 .. L-1, with L and I the supplied values, 0 included, and the defaults
\* 20 and 1.0 only for a field that is not supplied.
C25_WireAsSupplied ==
  \A n \in 1 .. Len(sources) :
    LET src == sources[n]
        L == IF src.length = Undef THEN FromInt(20) ELSE src.length
        I == IF src.current = Undef THEN One ELSE src.current
        theta == IF src.angle = Undef THEN 0 ELSE src.angle
        i == MathFloor(src.x)
        j == MathFloor(src.y)
        t == FMul(FromInt(time), params.dt)
        value == FMul(FMul(FMul(I, Sine(src, t)), src.amplitude), Half)
        ks == {k \in 0 .. MathFloor(L) : FLt(FromInt(k), L)}
        wi(k) == MathFloor(FAdd(FromInt(i), FMul(FromInt(k), MathCos(theta))))
        wj(k) == MathFloor(FAdd(FromInt(j), FMul(FromInt(k), MathSin(theta))))
        hits(idx) == Cardinality({k \in ks : /\ InGrid(params, wi(k), wj(k))
                                             /\ wj(k) * params.nx + wi(k) = idx})
    IN (src.type = "wire" /\ CentreInGrid(params, src))
         => Alone(params, src, time)
              = [idx \in Cells(params) |-> FMul(FromInt(hits(idx)), value)]

\* The listed obstacles whose footprint holds the cell, by position.
Covering(idx) ==
  {n \in 1 .. Len(obstacles) : idx \in Footprint(params, obstacles[n])}

\* C26 as stated: every cell covered by a listed obstacle has the epsilon
\* and mu of the covering obstacle added last.
C26_LatestCoveringMaterial ==
  \A idx \in Cells(params) :
    Covering(idx) # {}
      => LET last == CHOOSE n \in Covering(idx) : \A m \in Covering(idx) : m <= n
         IN /\ epsilon[idx] = obstacles[last].material.epsilon
            /\ mu[idx] = obstacles[last].material.mu

\* C27: in every state a cell whose epsilon or mu is not 1 lies in the
\* footprint of a listed obstacle, and with no obstacle listed epsilon, mu,
\* sigma and the coefficient maps are those of a new solver.
C27_NoOrphanedMaterial ==
  /\ \A idx \in Cells(params) :
       (epsilon[idx] # One \/ mu[idx] # One) => Covering(idx) # {}
  /\ obstacles = <<>> => Pristine

\* Of two obstacles with a common cell one was removed: the common cell is
\* vacuum and the other cells of the obstacle still listed hold a material
\* that is not vacuum.
C27_Witness ==
  /\ lastOp.op = "removeObstacle"
  /\ before.op.op = "addObstacle"
  /\ Len(obstacles) = 1
  /\ LET gone == IF before.op.obstacle.id = lastOp.id
                   THEN Footprint(params, before.op.obstacle) ELSE {}
     IN /\ \E idx \in gone \cap Footprint(params, obstacles[1]) :
             epsilon[idx] = One /\ mu[idx] = One
        /\ \E idx \in Footprint(params, obstacles[1]) \ gone :
             epsilon[idx] # One \/ mu[idx] # One

\* C28: with no obstacle listed sigma is the same in a cell, in its mirror
\* cell of the row and in its mirror cell of the column, and no cell of a
\* row or column has a larger sigma than the outermost cells of it.
C28_PmlMirrorSymmetric ==
  obstacles = <<>> =>
    LET nx == params.nx
        ny == params.ny
        At(i, j) == sigma[j * nx + i]
    IN \A i \in 0 .. (nx - 1) : \A j \in 0 .. (ny - 1) :
         /\ At(i, j) = At(nx - 1 - i, j)
         /\ At(i, j) = At(i, ny - 1 - j)
         /\ FGe(At(0, j), At(i, j)) /\ FGe(At(nx - 1, j), At(i, j))
         /\ FGe(At(i, 0), At(i, j)) /\ FGe(At(i, ny - 1), At(i, j))

\* A band of several cells was regraded by reset() or after a removal: the
\* two ends of a row hold the same positive peak and the innermost cells of
\* the two bands the same smaller positive value.
C28_Witness ==
  /\ obstacles = <<>>
  /\ lastOp.op \in {"reset", "removeObstacle"}
  /\ PmlThicknessOf(params) > 1
  /\ LET T == PmlThicknessOf(params)
         row == (params.ny \div 2) * params.nx
     IN /\ sigma[row] = sigma[row + params.nx - 1]
        /\ sigma[row + T - 1] = sigma[row + params.nx - T]
        /\ FGt(sigma[row + T - 1], 0)
        /\ FGt(sigma[row], sigma[row + T - 1])
        /\ sigma[row + T] = 0 /\ sigma[row + params.nx - T - 1] = 0

\* The source writes one cell, the cell of its centre.
PointType(src) == src.type \in {"dipole", "antenna", "plane-wave", "gaussian"}

\* The centre cell of the source is in the grid and on its outer rim.
OnRim(p, src) ==
  /\ CentreInGrid(p, src)
  /\ SourceCell(p, src) \in RimCells(p)

\* C29: a step() or run() leaves Ez, Hx, Hy as it would with every
\* point-type source whose cell is on the outer rim taken out of the list.
C29_RimSourceInert ==
  [][lastOp'.op \in {"step", "run"}
       => LET keep(src) == ~(PointType(src) /\ OnRim(params, src))
              without == [This EXCEPT !.sources = SelectSeq(sources, keep)]
              n == IF lastOp'.op = "step" THEN 1 ELSE lastOp'.steps
              expected == StepTimes(without, n)
          IN Ez' = expected.Ez /\ Hx' = expected.Hx /\ Hy' = expected.Hy]_vars

\* A step was taken with a point-type source listed whose cell is on the
\* rim and whose injection at that step was not zero.
C29_Witness ==
  /\ lastOp.op = "step"
  /\ \E n \in 1 .. Len(sources) :
       /\ PointType(sources[n]) /\ OnRim(params, sources[n])
       /\ Alone(params, sources[n], time - 1)[SourceCell(params, sources[n])] # 0
       /\ Ez[SourceCell(params, sources[n])] = 0

\* C30 as stated: n >= 1 steps from all-zero fields with one point-type
\* source listed, at cell (i0, j0) of the grid, leave Ez = 0 in every cell
\* (i, j) with |i - i0| + |j - j0| > n - 1, whatever the materials are.
C30_FinitePropagation ==
  [][(/\ lastOp'.op \in {"step", "run"}
      /\ StepsOf(lastOp') >= 1
      /\ Quiet(This)
      /\ Len(sources) = 1
      /\ PointType(sources[1])
      /\ CentreInGrid(params, sources[1]))
       => LET i0 == MathFloor(sources[1].x)
              j0 == MathFloor(sources[1].y)
              n == StepsOf(lastOp')
          IN \A i \in 0 .. (params.nx - 1) : \A j \in 0 .. (params.ny - 1) :
               Abs(i - i0) + Abs(j - j0) > n - 1
                 => Ez'[j * params.nx + i] = 0]_vars

====
